---- MODULE Spec2Model ----
(***************************************************************************)
(* Model of status-checker (cmd/status-checker/main.go): the polling loop  *)
(* of main, the probe goroutines of updateStatusState, the persistence of  *)
(* the snapshot and the websocket / status-json request handlers.          *)
(*                                                                         *)
(* URLs are modelled as the integers 1..NumUrls; the order of the integers *)
(* stands for the lexicographic order of the strings.  An instant is a     *)
(* count of clock ticks, TicksPerSec ticks to the second; a duration is a  *)
(* count of units, DurPerMs units to the millisecond.                      *)
(***************************************************************************)
EXTENDS Integers, Sequences, FiniteSets, TLC

\* ------------------------------------------------------------- bounds
NumUrls == 2
NumConns == 2
MaxTime == 3
\* endpoints configured plus clients that connect, at most
MaxLoad == 3

\* ----------------------------------------------------- units and values
TicksPerSec == 2
DurPerMs == 2
\* Unix seconds of the zero time.Time (January 1, year 1), scaled down.
UnixZero == -5

Urls == 1..NumUrls
Conns == 1..NumConns

\* the zero time.Time, in ticks
ZeroTime == UnixZero * TicksPerSec

\* time.Time.Unix(): whole seconds, rounded towards minus infinity
Unix(t) == t \div TicksPerSec

\* time.Unix(sec, 0)
TimeUnix(sec) == sec * TicksPerSec

\* time.Duration.Milliseconds()
Milliseconds(d) == d \div DurPerMs

\* a faulty variant of DurationOfMs: the count of milliseconds is taken for
\* the duration itself
DurationOfMsUnscaled(ms) == ms

\* time.Duration(ms) * time.Millisecond
DurationOfMs(ms) == ms * DurPerMs

\* StatusState{Healthy: true}: the entry parseConfig creates
DefaultState ==
  [Healthy |-> TRUE, LastHealthy |-> ZeroTime, LastUnhealthy |-> ZeroTime,
   ResponseCode |-> 0, ResponseTime |-> 0]

\* the zero StatusState a map read of a missing key yields
ZeroState ==
  [Healthy |-> FALSE, LastHealthy |-> ZeroTime, LastUnhealthy |-> ZeroTime,
   ResponseCode |-> 0, ResponseTime |-> 0]

\* ------------------------------------------------ the environment's inputs
\* status codes an endpoint answers with
StatusCodes == {200, 503}

\* texts of the error http.Get returns when there is no response
ErrTexts == {"refused", "nohost", "deadline", "EOF"}

\* strings.Contains(err.Error(), pat) for the three patterns of checkConfigItem
ErrContains(e, pat) ==
  \/ e = "refused"  /\ pat = "connect:"
  \/ e = "nohost"   /\ pat = "dial tcp:"
  \/ e = "deadline" /\ pat = "timeout"

\* elapsed wall time of one probe
Elapsed == {3}

NoErr == "nil"
NoResp == -1

\* what http.Get returns: a response and no error, or an error and no response
GetOutcomes ==
  [resp : StatusCodes, err : {NoErr}] \cup [resp : {NoResp}, err : ErrTexts]


\* ------------------------------------------------------------ helpers
Range(s) == {s[i] : i \in DOMAIN s}

\* the configurations: the first n URLs, for every n; a configuration names
\* each URL once
Configs == {[i \in 1..n |-> i] : n \in 0..NumUrls}

\* a faulty variant of MinOf: the comparison of the sort is turned around
MaxOf(S) == CHOOSE x \in S : \A y \in S : x >= y

\* the least element of a non-empty set of integers
MinOf(S) == CHOOSE x \in S : \A y \in S : x <= y

\* ------------------------------------------------------------- state
VARIABLES
  config,         \* var config []string
  statusState,    \* var statusState map[string]StatusState
  now,            \* the wall clock, in ticks
  pc,             \* where the main goroutine is
  exit,           \* "none" while the process runs; else how it ended
  probe,          \* per index of config: the goroutine of updateStatusState
  received,       \* numberOfStatusUpdatesReceived
  statusView,     \* main's local statusView
  saveErr,        \* main's local err of the first saveStatusState
  dirExists,      \* the data directory exists
  file,           \* contents of status_state.json
  wsConnections,  \* var wsConnections map[*websocket.Conn]interface{}
  hpc,            \* per connection: where its handleConnections is
  iterPending,    \* keys the range over wsConnections has still to produce
  firstKind,      \* per open connection: what wrote its first message
  jsonResp,       \* history: the last /status-json response made while the
                  \* current round was collecting results
  preRound,       \* history: statusState when the current round started
  saveCalls,      \* history: the calls of saveStatusState of this round
  mkdirCalls,     \* history: the outcomes of os.MkdirAll of this round
  bcastStart,     \* history: wsConnections when the broadcast loop started
  bcastRemoved,   \* history: connections deleted since the broadcast started
  bcastSent,      \* history: connections written this round's statusView
  bcastFailed,    \* history: connections whose broadcast write failed
  savedViews,     \* history: the snapshots this round wrote to the file
  sentViews       \* history: the snapshots this round's broadcast wrote

vars ==
  <<config, statusState, now, pc, exit, probe, received, statusView, saveErr,
    dirExists, file, wsConnections, hpc, iterPending, firstKind, jsonResp,
    preRound, saveCalls, mkdirCalls, bcastStart, bcastRemoved, bcastSent,
    bcastFailed, savedViews, sentViews>>

mainVars == <<pc, received, statusView, saveErr, iterPending>>
fsVars == <<dirExists, file>>
connVars == <<wsConnections, hpc, firstKind>>
saveHist == <<saveCalls, mkdirCalls>>
bcastHist == <<bcastStart, bcastRemoved, bcastSent, bcastFailed>>
readHist == <<jsonResp>>
pubHist == <<savedViews, sentViews>>

Running == exit = "none"

\* The process ends: its memory is gone, the file system stays.
Exits(how) ==
  /\ exit' = how
  /\ pc' = "exited"
  /\ statusState' = <<>>
  /\ probe' = <<>>
  /\ received' = 0
  /\ statusView' = <<>>
  /\ saveErr' = "nil"
  /\ wsConnections' = {}
  /\ hpc' = [c \in Conns |-> "closed"]
  /\ iterPending' = {}
  /\ firstKind' = [c \in Conns |-> "none"]
  /\ jsonResp' = <<"none">>
  /\ preRound' = <<>>
  /\ saveCalls' = <<>>
  /\ mkdirCalls' = <<>>
  /\ bcastStart' = {}
  /\ bcastRemoved' = {}
  /\ bcastSent' = {}
  /\ bcastFailed' = {}
  /\ savedViews' = {}
  /\ sentViews' = {}
  /\ UNCHANGED <<config, now, dirExists, file>>

\* ------------------------------------------------- views and snapshots
\* StatusState.toStatusView
toStatusView(s, item) ==
  [Url |-> item, Healthy |-> s.Healthy, LastHealth |-> Unix(s.LastHealthy),
   LastUnhealthy |-> Unix(s.LastUnhealthy), ResponseCode |-> s.ResponseCode,
   ResponseTime |-> Milliseconds(s.ResponseTime)]

\* sort.Slice by Url of one view per key of the map m
RECURSIVE SortedViews(_, _)
SortedViews(m, keys) ==
  IF keys = {} THEN <<>>
  ELSE LET u == MinOf(keys)
       IN <<toStatusView(m[u], u)>> \o SortedViews(m, keys \ {u})

\* StatusStatesToView over a map m
ViewOf(m) == SortedViews(m, DOMAIN m)

\* StatusStatesToView()
StatusStatesToView == ViewOf(statusState)

\* the orders in which a range over a map with the keys S can produce them
Orders(S) ==
  {o \in [1..Cardinality(S) -> S] :
     \A a, b \in DOMAIN o : a # b => o[a] # o[b]}

\* the slice StatusStatesToView has appended to when its range over the map m
\* produced the keys in the order o
Appended(m, o) == [k \in DOMAIN o |-> toStatusView(m[o[k]], o[k])]

\* the view v put into the slice s, which is sorted by Url
RECURSIVE Insert(_, _)
Insert(v, s) ==
  IF s = <<>> THEN <<v>>
  ELSE IF v.Url < Head(s).Url THEN <<v>> \o s
       ELSE <<Head(s)>> \o Insert(v, Tail(s))

\* sort.Slice(statusViews, less) with less comparing Url
RECURSIVE SortByUrl(_)
SortByUrl(s) ==
  IF s = <<>> THEN <<>> ELSE Insert(Head(s), SortByUrl(Tail(s)))

\* statusState[item], the zero value for a missing key
Lookup(item) ==
  IF item \in DOMAIN statusState THEN statusState[item] ELSE ZeroState

\* m[k] = v on a map
MapPut(m, k, v) == [x \in DOMAIN m \cup {k} |-> IF x = k THEN v ELSE m[x]]

\* ------------------------------------------------ the persisted file
Absent == [kind |-> "absent", views |-> <<>>]
Garbage == [kind |-> "garbage", views |-> <<>>]
FileOf(views) == [kind |-> "views", views |-> views]

\* a record an earlier run of the program wrote for url u
EarlierRecord(u) ==
  IF u % 2 = 1
  THEN [Url |-> u, Healthy |-> TRUE, LastHealth |-> 0, LastUnhealthy |-> UnixZero,
        ResponseCode |-> 200, ResponseTime |-> 1]
  ELSE [Url |-> u, Healthy |-> FALSE, LastHealth |-> UnixZero, LastUnhealthy |-> 0,
        ResponseCode |-> 503, ResponseTime |-> 0]

RECURSIVE EarlierViews(_)
EarlierViews(keys) ==
  IF keys = {} THEN <<>>
  ELSE LET u == MinOf(keys)
       IN <<EarlierRecord(u)>> \o EarlierViews(keys \ {u})

\* the files the program may find at startup
StartFiles == {Absent, Garbage, FileOf(EarlierViews(Urls))}

\* a faulty variant of ParsedState: the entries are zero StatusState values,
\* Healthy not set
ParsedZero(cfg) == [u \in Range(cfg) |-> ZeroState]

\* ------------------------------------------------------------- Init
\* parseConfig: one default entry per configured item
ParsedState(cfg) == [u \in Range(cfg) |-> DefaultState]

NoUpdate == [item |-> 0, state |-> ZeroState]
IdleProbe == [st |-> "idle", upd |-> NoUpdate]

\* The state when main has parsed its arguments and the configuration and has
\* started the HTTP server: an unreadable or malformed configuration leaves
\* config empty.  The data directory is missing, or holds a file that does not
\* decode, or holds the file of an earlier run.  A connection that is "absent"
\* is never opened.
Init ==
  /\ config \in Configs
  /\ statusState = ParsedState(config)
  /\ now = TicksPerSec
  /\ pc = "load"
  /\ exit = "none"
  /\ probe = [i \in DOMAIN config |-> IdleProbe]
  /\ received = 0
  /\ statusView = <<>>
  /\ saveErr = "nil"
  /\ file \in StartFiles
  /\ dirExists = (file # Absent)
  /\ wsConnections = {}
  /\ hpc = [c \in Conns |->
              IF Len(config) + c <= MaxLoad THEN "new" ELSE "absent"]
  /\ iterPending = {}
  /\ firstKind = [c \in Conns |-> "none"]
  /\ jsonResp = <<"none">>
  /\ preRound = statusState
  /\ saveCalls = <<>>
  /\ mkdirCalls = <<>>
  /\ bcastStart = {}
  /\ bcastRemoved = {}
  /\ bcastSent = {}
  /\ bcastFailed = {}
  /\ savedViews = {}
  /\ sentViews = {}

\* ------------------------------------------------------- startup restore
\* the loop of loadStatusState over the decoded statusViews, from index i
RECURSIVE RestoreInto(_, _, _)
RestoreInto(m, views, i) ==
  IF i > Len(views) THEN m
  ELSE RestoreInto(
         MapPut(m, views[i].Url,
                [Healthy |-> views[i].Healthy,
                 LastHealthy |-> TimeUnix(views[i].LastHealth),
                 LastUnhealthy |-> TimeUnix(views[i].LastUnhealthy),
                 ResponseCode |-> views[i].ResponseCode,
                 ResponseTime |-> DurationOfMs(views[i].ResponseTime)]),
         views, i + 1)

\* the map a process holds after it parsed the configuration cfg and restored
\* the decoded views
Restored(cfg, views) == RestoreInto(ParsedState(cfg), views, 1)

\* a faulty variant of Loaded: a file that cannot be read resets every entry
\* to the zero StatusState
LoadedOrZeroed(m, f) ==
  IF f.kind = "views" THEN RestoreInto(m, f.views, 1)
  ELSE [u \in DOMAIN m |-> ZeroState]

\* the map after loadStatusState met the file f: os.Open or Decode failing
\* returns before the loop that writes the map
Loaded(m, f) ==
  IF f.kind = "views" THEN RestoreInto(m, f.views, 1) ELSE m

\* loadStatusState and main's handling of its error: a file that is absent or
\* does not decode leaves the map alone
LoadStatusState ==
  /\ Running
  /\ pc = "load"
  /\ statusState' = Loaded(statusState, file)
  /\ pc' = "spawn"
  /\ UNCHANGED <<config, now, exit, probe, received, statusView, saveErr,
                 fsVars, connVars, iterPending, preRound, readHist, saveHist,
                 bcastHist,
                 pubHist>>

\* ------------------------------------------------------------ the probe
\* the status checkConfigItem records when http.Get returned an error: the
\* response is nil, so reading resp.StatusCode panics
ErrStat(out) ==
  IF /\ ~ErrContains(out.err, "connect:")
     /\ ~ErrContains(out.err, "dial tcp:")
     /\ ~ErrContains(out.err, "timeout")
  THEN "panic"
  ELSE "zero"

\* a faulty variant of IsHealthy: the upper end of the range is not tested
IsHealthyFrom200(code) == code >= 200

\* healthy := resp.StatusCode >= 200 && resp.StatusCode < 300
IsHealthy(code) == code >= 200 /\ code < 300

\* a faulty variant of checkConfigItem: the result is a fresh StatusState in
\* which the timestamp of the opposite outcome is left at its zero value
checkConfigItemFresh(item, out, elapsed) ==
  IF out.err # NoErr
  THEN [item |-> item,
        state |-> [Healthy |-> FALSE, ResponseTime |-> elapsed,
                   ResponseCode |-> 0,
                   LastHealthy |-> ZeroTime,
                   LastUnhealthy |-> now]]
  ELSE [item |-> item,
        state |-> [Healthy |-> IsHealthy(out.resp), ResponseTime |-> elapsed,
                   ResponseCode |-> out.resp,
                   LastHealthy |-> now,
                   LastUnhealthy |-> ZeroTime]]

\* the statusUpdate checkConfigItem returns for an outcome of http.Get that
\* does not panic
checkConfigItem(item, out, elapsed) ==
  IF out.err # NoErr
  THEN [item |-> item,
        state |-> [Healthy |-> FALSE, ResponseTime |-> elapsed,
                   ResponseCode |-> 0,
                   LastHealthy |-> Lookup(item).LastHealthy,
                   LastUnhealthy |-> now]]
  ELSE [item |-> item,
        state |-> [Healthy |-> IsHealthy(out.resp), ResponseTime |-> elapsed,
                   ResponseCode |-> out.resp,
                   LastHealthy |-> now,
                   LastUnhealthy |-> Lookup(item).LastUnhealthy]]

\* updateStatusState, first half: a fresh channel and one goroutine per item
Spawn ==
  /\ Running
  /\ pc = "spawn"
  /\ probe' = [i \in DOMAIN config |-> [st |-> "running", upd |-> NoUpdate]]
  /\ received' = 0
  /\ pc' = "collect"
  /\ preRound' = statusState
  /\ UNCHANGED <<config, statusState, now, exit, statusView, saveErr, fsVars,
                 connVars, iterPending, readHist, saveHist, bcastHist,
                 pubHist>>

\* the goroutine's http.Get returns and checkConfigItem builds its result; the
\* goroutine then waits to send it on the unbuffered channel.  http.Get uses
\* http.DefaultClient, which sets no timeout.
HttpGetReturns(i) ==
  /\ Running
  /\ probe[i].st = "running"
  /\ \E out \in GetOutcomes, el \in Elapsed :
       IF out.err # NoErr /\ ErrStat(out) = "panic"
       THEN Exits("panic")
       ELSE /\ probe' = [probe EXCEPT ![i] =
                 [st |-> "ready", upd |-> checkConfigItem(config[i], out, el)]]
            /\ UNCHANGED <<config, statusState, now, exit, mainVars, fsVars,
                           connVars, preRound, readHist, saveHist, bcastHist,
                 pubHist>>

\* the endpoint accepts the request and never answers: with no timeout the
\* goroutine stays in http.Get
HttpGetHangs(i) ==
  /\ Running
  /\ probe[i].st = "running"
  /\ probe' = [probe EXCEPT ![i].st = "hung"]
  /\ UNCHANGED <<config, statusState, now, exit, mainVars, fsVars, connVars,
                 preRound, readHist, saveHist, bcastHist,
                 pubHist>>

\* the map after main stored one received update
ApplyUpdate(m, upd) == MapPut(m, upd.item, upd.state)

\* a faulty variant of RoundComplete: the channel is closed with the first
\* result
RoundCompleteAtFirst(n) == n >= 1

\* numberOfStatusUpdatesReceived == len(config): the channel is closed and
\* the range over it ends
RoundComplete(n) == n = Len(config)

\* updateStatusState, one iteration of the range over updateChannel: the
\* goroutine i hands over its result, main stores it and counts it, and closes
\* the channel (ending the loop) when it has counted len(config)
Receive(i) ==
  /\ Running
  /\ pc = "collect"
  /\ probe[i].st = "ready"
  /\ statusState' = ApplyUpdate(statusState, probe[i].upd)
  /\ received' = received + 1
  /\ probe' = [probe EXCEPT ![i] = [st |-> "done", upd |-> NoUpdate]]
  /\ pc' = IF RoundComplete(received + 1) THEN "view" ELSE "collect"
  /\ UNCHANGED <<config, now, exit, statusView, saveErr, fsVars, connVars,
                 iterPending, preRound, readHist, saveHist, bcastHist,
                 pubHist>>

\* ---------------------------------------------------------- persistence
\* the errors one call of saveStatusState can return: os.Create fails with
\* ENOENT when the directory is missing; in an existing directory the call
\* succeeds, or os.Create is refused, or the encoder's write fails
SaveErrors(dir) == IF dir THEN {"nil", "EACCES", "encode"} ELSE {"ENOENT"}

\* status_state.json after a call: os.Create truncates, Encode writes
FileAfter(f, views, err) ==
  CASE err = "nil" -> FileOf(views)
    [] err = "encode" -> Garbage
    [] OTHER -> f

\* errors.Is(err, syscall.ENOENT)
IsENOENT(err) == err = "ENOENT"

\* a faulty variant of AfterFirstSave: the directory is created and the write
\* retried after any error, not only after ENOENT
RetryOnAnyError(err) == IF err = "nil" THEN "broadcast" ELSE "mkdir"

\* the snapshots written to the file, after a call that returned err
SavedAfter(saved, views, err) ==
  IF err = "nil" THEN saved \cup {views} ELSE saved

\* where main goes after the first saveStatusState returned err
AfterFirstSave(err) ==
  IF err = "nil" THEN "broadcast"
  ELSE IF IsENOENT(err) THEN "mkdir" ELSE "broadcast"

\* where main goes after os.MkdirAll
AfterMkdir(ok) == IF ok THEN "retry" ELSE "broadcast"

\* where main goes after the retried saveStatusState returned err
AfterRetry(err) == "broadcast"

\* statusView := StatusStatesToView()
TakeView ==
  /\ Running
  /\ pc = "view"
  /\ statusView' = StatusStatesToView
  /\ pc' = "save"
  /\ jsonResp' = <<"none">>
  /\ UNCHANGED <<config, statusState, now, exit, probe, received, saveErr,
                 fsVars, connVars, iterPending, preRound, saveHist, bcastHist,
                 pubHist>>

\* err := saveStatusState(statusView, args.dataPath)
SaveFirst ==
  /\ Running
  /\ pc = "save"
  /\ \E err \in SaveErrors(dirExists) :
       /\ file' = FileAfter(file, statusView, err)
       /\ saveErr' = err
       /\ saveCalls' = Append(saveCalls, [views |-> statusView, err |-> err])
       /\ savedViews' = SavedAfter(savedViews, statusView, err)
       /\ pc' = AfterFirstSave(err)
  /\ UNCHANGED <<config, statusState, now, exit, probe, received, statusView,
                 dirExists, connVars, iterPending, preRound, readHist,
                 mkdirCalls, bcastHist,
                 sentViews>>

\* err := os.MkdirAll(args.dataPath, os.ModePerm)
MkdirAll ==
  /\ Running
  /\ pc = "mkdir"
  /\ \E ok \in BOOLEAN :
       /\ dirExists' = (dirExists \/ ok)
       /\ mkdirCalls' = Append(mkdirCalls, ok)
       /\ pc' = AfterMkdir(ok)
  /\ UNCHANGED <<config, statusState, now, exit, probe, received, statusView,
                 saveErr, file, connVars, iterPending, preRound, readHist,
                 saveCalls, bcastHist,
                 pubHist>>

\* err = saveStatusState(statusView, args.dataPath), the retry
SaveRetry ==
  /\ Running
  /\ pc = "retry"
  /\ \E err \in SaveErrors(dirExists) :
       /\ file' = FileAfter(file, statusView, err)
       /\ saveCalls' = Append(saveCalls, [views |-> statusView, err |-> err])
       /\ savedViews' = SavedAfter(savedViews, statusView, err)
       /\ pc' = AfterRetry(err)
  /\ UNCHANGED <<config, statusState, now, exit, probe, received, statusView,
                 saveErr, dirExists, connVars, iterPending, preRound, readHist,
                 mkdirCalls, bcastHist,
                 sentViews>>

\* ------------------------------------------------------------ broadcast
\* how a conn.WriteJSON can end: written, failed, or never completing (no
\* write deadline is set on the connection)
WriteOutcomes == {"ok", "fail", "block"}

\* a faulty variant of DropConn: the connection is closed but stays in the map
KeepConn(conns, c) == conns

\* delete(wsConnections, conn)
DropConn(conns, c) == conns \ {c}

\* a faulty variant of IterAfterFailure: a failed write ends the loop
BreakOnFailure(pending, c) == {}

\* the keys the range has still to produce after the write to c failed and c
\* was deleted: the loop goes on
IterAfterFailure(pending, c) == pending \ {c}

\* what wrote the first message of connection c, after a write of kind k
FirstAfter(fk, c, k) == [fk EXCEPT ![c] = IF @ = "none" THEN k ELSE @]

\* for conn := range wsConnections: the loop starts
BroadcastStart ==
  /\ Running
  /\ pc = "broadcast"
  /\ iterPending' = wsConnections
  /\ pc' = "range"
  /\ bcastStart' = wsConnections
  /\ bcastRemoved' = {}
  /\ bcastSent' = {}
  /\ bcastFailed' = {}
  /\ saveCalls' = <<>>
  /\ mkdirCalls' = <<>>
  /\ UNCHANGED <<config, statusState, now, exit, probe, received, statusView,
                 saveErr, fsVars, connVars, preRound, readHist, pubHist>>

\* one iteration: conn.WriteJSON(statusView), and the delete when it failed
BroadcastWrite(c) ==
  /\ Running
  /\ pc = "range"
  /\ c \in iterPending
  /\ \E o \in WriteOutcomes :
       CASE o = "ok" ->
              /\ firstKind' = FirstAfter(firstKind, c, "round")
              /\ iterPending' = iterPending \ {c}
              /\ bcastSent' = bcastSent \cup {c}
              /\ sentViews' = sentViews \cup {statusView}
              /\ UNCHANGED <<pc, wsConnections, bcastFailed>>
         [] o = "fail" ->
              /\ wsConnections' = DropConn(wsConnections, c)
              /\ iterPending' = IterAfterFailure(iterPending, c)
              /\ bcastFailed' = bcastFailed \cup {c}
              /\ UNCHANGED <<pc, firstKind, bcastSent, sentViews>>
         [] o = "block" ->
              /\ pc' = "stalled"
              /\ UNCHANGED <<wsConnections, firstKind, iterPending, bcastSent,
                             bcastFailed, sentViews>>
  /\ UNCHANGED <<config, statusState, now, exit, probe, received, statusView,
                 saveErr, fsVars, hpc, preRound, readHist, saveHist,
                 bcastStart, bcastRemoved, savedViews>>

\* the range has produced every key
BroadcastEnd ==
  /\ Running
  /\ pc = "range"
  /\ iterPending = {}
  /\ pc' = "sleep"
  /\ UNCHANGED <<config, statusState, now, exit, probe, received, statusView,
                 saveErr, fsVars, connVars, iterPending, preRound, readHist,
                 saveHist, bcastHist,
                 pubHist>>

\* time.Sleep(time.Duration(args.timeout) * time.Second): the clock moves on;
\* the locals of the loop body end with the iteration
Sleep ==
  /\ Running
  /\ pc = "sleep"
  /\ now < MaxTime
  /\ now' = now + 1
  /\ pc' = "spawn"
  /\ statusView' = <<>>
  /\ saveErr' = "nil"
  /\ bcastStart' = {}
  /\ bcastRemoved' = {}
  /\ bcastSent' = {}
  /\ bcastFailed' = {}
  /\ savedViews' = {}
  /\ sentViews' = {}
  /\ UNCHANGED <<config, statusState, exit, probe, received, fsVars, connVars,
                 iterPending, preRound, readHist, saveHist>>

\* ------------------------------------------------------ request handlers
\* the range of main's broadcast is running
Ranging == pc \in {"range", "stalled"}

\* a delete by a handler: the key leaves the map, is no longer produced by a
\* running range, and the history notes it
HandlerDelete(c) ==
  /\ wsConnections' = wsConnections \ {c}
  /\ iterPending' = iterPending \ {c}
  /\ bcastRemoved' =
       IF Ranging /\ c \in wsConnections THEN bcastRemoved \cup {c}
       ELSE bcastRemoved

\* handleConnections: the upgrade succeeds and wsConnections[conn] = nil; a
\* key inserted while a range is running may or may not be produced by it
Connect(c) ==
  /\ Running
  /\ hpc[c] = "new"
  /\ hpc' = [hpc EXCEPT ![c] = "registered"]
  /\ wsConnections' = wsConnections \cup {c}
  /\ \/ iterPending' = iterPending
     \/ Ranging /\ iterPending' = iterPending \cup {c}
  /\ UNCHANGED <<config, statusState, now, pc, exit, probe, received,
                 statusView, saveErr, fsVars, firstKind, preRound,
                 readHist, saveHist, bcastHist,
                 pubHist>>

\* handleConnections: the upgrade fails and log.Fatal ends the process
UpgradeFails ==
  /\ Running
  /\ Exits("fatal")

\* handleConnections: statusView := StatusStatesToView() and
\* conn.WriteJSON(statusView), with the delete when the write failed
InitialWrite(c) ==
  /\ Running
  /\ hpc[c] = "registered"
  /\ \E o \in WriteOutcomes :
       CASE o = "ok" ->
              /\ firstKind' = FirstAfter(firstKind, c, "init")
              /\ hpc' = [hpc EXCEPT ![c] = "reading"]
              /\ UNCHANGED <<wsConnections, iterPending, bcastRemoved>>
         [] o = "fail" ->
              /\ HandlerDelete(c)
              /\ hpc' = [hpc EXCEPT ![c] = "reading"]
              /\ UNCHANGED firstKind
         [] o = "block" ->
              /\ hpc' = [hpc EXCEPT ![c] = "stalled"]
              /\ UNCHANGED <<wsConnections, iterPending, bcastRemoved,
                             firstKind>>
  /\ UNCHANGED <<config, statusState, now, pc, exit, probe, received,
                 statusView, saveErr, fsVars, preRound, readHist,
                 saveHist, bcastStart, bcastSent, bcastFailed, pubHist>>

\* handleConnections: conn.ReadMessage() fails, the loop breaks and the
\* deferred function closes the connection and deletes it
Disconnect(c) ==
  /\ Running
  /\ hpc[c] = "reading"
  /\ hpc' = [hpc EXCEPT ![c] = "closed"]
  /\ firstKind' = [firstKind EXCEPT ![c] = "none"]
  /\ HandlerDelete(c)
  /\ UNCHANGED <<config, statusState, now, pc, exit, probe, received,
                 statusView, saveErr, fsVars, preRound,
                 readHist, saveHist, bcastStart, bcastSent, bcastFailed,
                 pubHist>>

\* the /status-json handler: statusViews := StatusStatesToView(), encoded
\* into the response
StatusJson ==
  /\ Running
  /\ jsonResp' =
       IF pc = "collect" THEN <<"views", StatusStatesToView>> ELSE jsonResp
  /\ UNCHANGED <<config, statusState, now, mainVars, exit, probe, fsVars,
                 connVars, preRound, saveHist, bcastHist,
                 pubHist>>

\* --------------------------------------------- unsynchronised map access
\* main stands before a write of statusState: an assignment of the loop of
\* loadStatusState, or statusState[update.item] = update.state
WritesStateMap ==
  \/ pc = "load" /\ file.kind = "views" /\ Len(file.views) > 0
  \/ \E i \in DOMAIN config : ENABLED Receive(i)

\* another goroutine stands before a read of statusState: a probe before
\* statusState[item], a subscribe handler or a /status-json handler before
\* StatusStatesToView(); none of them takes a lock
ReadsStateMap ==
  \/ \E i \in DOMAIN config : ENABLED HttpGetReturns(i)
  \/ \E c \in Conns : ENABLED InitialWrite(c)
  \/ ENABLED StatusJson

\* the handler of connection c stands before wsConnections[conn] = nil or
\* before a delete(wsConnections, conn)
MutatesConnMap(c) ==
  ENABLED Connect(c) \/ ENABLED InitialWrite(c) \/ ENABLED Disconnect(c)

\* the Go runtime finds a read of statusState running into a write of it and
\* ends the process ("concurrent map read and map write", "concurrent map
\* iteration and map write")
StateMapFatal ==
  /\ Running
  /\ WritesStateMap
  /\ ReadsStateMap
  /\ Exits("mapread")

\* the Go runtime finds a handler's write of wsConnections running into the
\* range of the broadcast or into another handler's write ("concurrent map
\* iteration and map write", "concurrent map writes")
ConnMapFatal ==
  /\ Running
  /\ \E c \in Conns :
       /\ MutatesConnMap(c)
       /\ pc = "range" \/ \E d \in Conns \ {c} : MutatesConnMap(d)
  /\ Exits("mapwrite")

\* ------------------------------------------------------- specification
\* the steps of the main goroutine
MainStep ==
  \/ LoadStatusState
  \/ Spawn
  \/ \E i \in DOMAIN config : Receive(i)
  \/ TakeView
  \/ SaveFirst
  \/ MkdirAll
  \/ SaveRetry
  \/ BroadcastStart
  \/ \E c \in Conns : BroadcastWrite(c)
  \/ BroadcastEnd
  \/ Sleep

\* the steps of the probe goroutines
ProbeStep == \E i \in DOMAIN config : HttpGetReturns(i) \/ HttpGetHangs(i)

Next ==
  \/ LoadStatusState
  \/ Spawn
  \/ \E i \in DOMAIN config : HttpGetReturns(i)
  \/ \E i \in DOMAIN config : HttpGetHangs(i)
  \/ \E i \in DOMAIN config : Receive(i)
  \/ TakeView
  \/ SaveFirst
  \/ MkdirAll
  \/ SaveRetry
  \/ BroadcastStart
  \/ \E c \in Conns : BroadcastWrite(c)
  \/ BroadcastEnd
  \/ Sleep
  \/ \E c \in Conns : Connect(c)
  \/ UpgradeFails
  \/ \E c \in Conns : InitialWrite(c)
  \/ \E c \in Conns : Disconnect(c)
  \/ StatusJson
  \/ StateMapFatal
  \/ ConnMapFatal

Spec == Init /\ [][Next]_vars

\* The Go scheduler runs every goroutine that can take a step: the main
\* goroutine and the probe goroutines.  What clients do is not forced.
FairSpec ==
  /\ Spec
  /\ WF_vars(MainStep)
  /\ WF_vars(ProbeStep)

\* ------------------------------------------------------------- claims

\* C1: applying a probe result changes lastHealthyAt exactly when the result
\* was healthy and lastUnhealthyAt exactly when it was not; a 503 response
\* advances lastUnhealthyAt and leaves lastHealthyAt alone.
C1_TimestampsFollowOutcome ==
  [][\A i \in DOMAIN config :
       (exit' = "none" /\ probe[i].st = "ready" /\ probe'[i].st = "done") =>
         LET u == probe[i].upd.item
             r == probe[i].upd.state
         IN /\ (statusState'[u].LastHealthy # statusState[u].LastHealthy)
                 <=> r.Healthy
            /\ (statusState'[u].LastUnhealthy # statusState[u].LastUnhealthy)
                 <=> ~r.Healthy]_vars

\* C2: a snapshot read while a round is in progress shows, for every endpoint,
\* the values from before the round or the values after the whole round;
\* stated when the round has just completed, about the /status-json response
\* made during it.
C2_SnapshotAtomic ==
  (Running /\ pc = "view" /\ jsonResp # <<"none">>) =>
    jsonResp[2] \in {ViewOf(preRound), ViewOf(statusState)}

\* C3: the probe never raises: no transport failure, whatever its error
\* text, ends the process with a panic.
C3_ProbeNeverRaises == exit # "panic"

\* C4: with an empty configured set every round terminates and reaches its
\* persist, broadcast and sleep steps (or the process was ended from outside
\* the round).
C4_EmptyConfigRoundEnds ==
  (Running /\ Len(config) = 0 /\ pc = "collect") ~> (pc \in {"sleep", "exited"})

\* C5: every probe carries its own timeout, so with N >= 1 endpoints the
\* barrier of the round is eventually released (or the process has ended).
C5_BarrierReleased ==
  (Running /\ Len(config) >= 1 /\ pc = "collect") ~> (pc # "collect")

\* C6: in the broadcast after a round a failed write removes exactly the
\* subscriber it failed for, and every subscriber that stays in the set for
\* the whole broadcast is sent the round's snapshot.  stayed: the connections
\* in the set when the loop started, less those whose write failed and those
\* their own handlers deleted meanwhile.
C6_FailureIsolated ==
  LET stayed == bcastStart \ (bcastFailed \cup bcastRemoved)
  IN /\ (Running /\ Ranging) => wsConnections \cap bcastStart = stayed
     /\ (Running /\ pc = "sleep") => stayed \subseteq bcastSent

\* C6 witness: a broadcast has completed in which one write failed and
\* another subscriber, present throughout, was sent the snapshot.
C6_Witness ==
  /\ pc = "sleep"
  /\ bcastFailed # {}
  /\ (bcastStart \ (bcastFailed \cup bcastRemoved)) \cap bcastSent # {}

\* C7: a write to a subscriber that does not complete never blocks the
\* system: the broadcast loop is eventually left (or the process has ended).
C7_SlowSubscriberNeverBlocks ==
  (Running /\ pc = "range") ~> (pc \notin {"range", "stalled"})

\* C8: the first message written to a connection is the handler's initial
\* snapshot, never a round broadcast.
C8_InitialSnapshotFirst == \A c \in Conns : firstKind[c] # "round"

\* the persist steps of main
Persisting == pc \in {"save", "mkdir", "retry"}

\* C9: persisting makes at most two write attempts; the second is made
\* exactly when the first failed with not-found and the directory was then
\* created, and it is given the same snapshot; whatever the outcomes, the
\* persist steps never block and lead to the same round's broadcast.
C9_PersistRetryOnce ==
  /\ [](Running =>
         /\ Len(saveCalls) <= 2
         /\ Len(mkdirCalls) <= 1
         /\ Len(saveCalls) = 2 =>
              /\ saveCalls[1].err = "ENOENT"
              /\ mkdirCalls = <<TRUE>>
              /\ saveCalls[2].views = saveCalls[1].views
         /\ pc = "broadcast" =>
              /\ Len(saveCalls) >= 1
              /\ saveCalls[1].err = "ENOENT" => Len(mkdirCalls) = 1
              /\ (saveCalls[1].err = "ENOENT" /\ mkdirCalls = <<TRUE>>) =>
                   Len(saveCalls) = 2
              /\ \A k \in DOMAIN saveCalls : saveCalls[k].views = statusView
         /\ Persisting => ENABLED (SaveFirst \/ MkdirAll \/ SaveRetry))
  /\ [][(Running /\ Persisting /\ pc' # pc) =>
          pc' \in {"mkdir", "retry", "broadcast", "exited"}]_vars

\* C9 witness: the first write failed with not-found, the directory was
\* created and the retried write succeeded.
C9_Witness ==
  /\ pc = "broadcast"
  /\ Len(saveCalls) = 2
  /\ saveCalls[1].err = "ENOENT"
  /\ saveCalls[2].err = "nil"
  /\ file = FileOf(statusView)

\* C10: after the restore the endpoints held in the map are exactly the
\* configured ones; a persisted record for another URL adds no entry.
C10_RestoreOnlyConfigured ==
  (Running /\ pc # "load") => DOMAIN statusState = Range(config)

\* the views of snapshot s that carry the url u
ViewsFor(s, u) == {k \in DOMAIN s : s[k].Url = u}

\* saving the snapshot s, restoring it and taking a snapshot again gives, for
\* every endpoint of s, the view s held
RoundTrips(s) ==
  LET again == ViewOf(Restored(config, s))
  IN \A k \in DOMAIN s :
       /\ ViewsFor(again, s[k].Url) # {}
       /\ \A j \in ViewsFor(again, s[k].Url) : again[j] = s[k]

\* C11: persistence round-trips: every snapshot the program took, saved or
\* found in its file, once restored and snapshotted again, gives field for
\* field the same view for every persisted endpoint, unset timestamps
\* included.
C11_PersistenceRoundTrips ==
  Running =>
    /\ RoundTrips(StatusStatesToView)
    /\ RoundTrips(statusView)
    /\ file.kind = "views" => RoundTrips(file.views)

\* C11 witness: the round's snapshot was written to the file; it holds an
\* endpoint whose lastUnhealthy is still unset, a timestamp that is no whole
\* second and a response time that is no whole millisecond.
C11_Witness ==
  /\ pc = "broadcast"
  /\ file = FileOf(statusView)
  /\ \E u \in Range(config) :
       /\ statusState[u].LastUnhealthy = ZeroTime
       /\ statusState[u].LastHealthy % TicksPerSec # 0
       /\ statusState[u].ResponseTime % DurPerMs # 0

\* C12: timestamps never regress: when the coordinator applies a probe result,
\* neither lastHealthy nor lastUnhealthy of any endpoint decreases, although
\* the result carries a copy of the opposite timestamp that the probe read
\* while the round was running.
C12_TimestampsNeverRegress ==
  [][(exit = "none" /\ exit' = "none" /\ pc = "collect") =>
       \A u \in DOMAIN statusState :
         /\ statusState'[u].LastHealthy >= statusState[u].LastHealthy
         /\ statusState'[u].LastUnhealthy >= statusState[u].LastUnhealthy]_vars

\* C12 witness: a failed probe's result was applied to an endpoint that had
\* been healthy in an earlier round of this run; the earlier lastHealthy was
\* carried over by the result.
C12_Witness ==
  /\ Running
  /\ pc = "collect"
  /\ \E i \in DOMAIN probe :
       /\ probe[i].st = "done"
       /\ ~statusState[config[i]].Healthy
       /\ statusState[config[i]].LastUnhealthy = now
       /\ statusState[config[i]].LastHealthy >= TicksPerSec
       /\ statusState[config[i]].LastHealthy < now
       /\ preRound[config[i]].LastHealthy = statusState[config[i]].LastHealthy

\* the polling loop is about to start its first round
FirstRoundAhead == Running /\ pc = "spawn" /\ now = TicksPerSec

\* C13: a store file that is absent or does not decode changes nothing: every
\* configured endpoint keeps its default state (healthy, both timestamps
\* unset, code 0) and the polling loop starts its first round.
C13_UnreadableStoreKeepsDefaults ==
  (FirstRoundAhead /\ file.kind # "views") =>
    /\ DOMAIN statusState = Range(config)
    /\ \A u \in Range(config) :
         /\ statusState[u].Healthy
         /\ statusState[u].LastHealthy = ZeroTime
         /\ statusState[u].LastUnhealthy = ZeroTime
         /\ statusState[u].ResponseCode = 0
    /\ ENABLED Spawn

\* C13 witness: startup met a file that does not decode, with endpoints
\* configured, and the loop stands before its first round.
C13_Witness ==
  /\ FirstRoundAhead
  /\ file = Garbage
  /\ Len(config) = NumUrls

\* status codes around the two ends of the healthy range, and two error codes
EdgeCodes == {199, 200, 299, 300, 404, 503}

\* the outcomes of http.Get from which checkConfigItem builds a result
ResultOutcomes ==
  [resp : EdgeCodes \cup StatusCodes, err : {NoErr}]
    \cup {o \in [resp : {NoResp}, err : ErrTexts] : ErrStat(o) # "panic"}

\* C14: a probe result is healthy exactly when a response was received and its
\* status code is at least 200 and below 300, and the code the result records
\* is that status code; so is every endpoint's state once the round's results
\* are applied.
C14_HealthyIff2xx ==
  Running =>
    /\ \A u \in Range(config), o \in ResultOutcomes, el \in Elapsed :
         LET r == checkConfigItem(u, o, el).state
         IN /\ r.Healthy <=> (o.err = NoErr /\ o.resp \in 200..299)
            /\ o.err = NoErr => r.ResponseCode = o.resp
    /\ \A i \in DOMAIN probe :
         probe[i].st = "ready" =>
           (probe[i].upd.state.Healthy
              <=> probe[i].upd.state.ResponseCode \in 200..299)
    /\ pc = "view" =>
         \A u \in Range(config) :
           statusState[u].Healthy <=> statusState[u].ResponseCode \in 200..299

\* C14 witness: a round ended with one endpoint answering 200 and healthy and
\* another answering 503 and unhealthy.
C14_Witness ==
  /\ Running
  /\ pc = "view"
  /\ \E u, v \in Range(config) :
       /\ statusState[u].Healthy /\ statusState[u].ResponseCode = 200
       /\ ~statusState[v].Healthy /\ statusState[v].ResponseCode = 503

\* the snapshot s holds exactly one view for each key of keys
OnePerKey(s, keys) ==
  /\ Len(s) = Cardinality(keys)
  /\ {s[k].Url : k \in DOMAIN s} = keys

\* the snapshot s is strictly ascending by url
Ascending(s) == \A k \in DOMAIN s : k > 1 => s[k - 1].Url < s[k].Url

\* main holds the round's snapshot in its local statusView
ViewTaken == pc \in {"save", "mkdir", "retry", "broadcast", "range",
                     "stalled", "sleep"}

\* C15: every snapshot lists exactly one view for each endpoint the state map
\* holds, strictly ascending by url, whatever order the range over the map
\* produced the keys in.
C15_SnapshotSortedOnePerKey ==
  Running =>
    /\ OnePerKey(StatusStatesToView, DOMAIN statusState)
    /\ Ascending(StatusStatesToView)
    /\ \A o \in Orders(DOMAIN statusState) :
         SortByUrl(Appended(statusState, o)) = StatusStatesToView
    /\ ViewTaken =>
         OnePerKey(statusView, DOMAIN statusState) /\ Ascending(statusView)
    /\ jsonResp # <<"none">> =>
         OnePerKey(jsonResp[2], DOMAIN statusState) /\ Ascending(jsonResp[2])

\* C15 witness: the state map holds NumUrls endpoints, which a range can
\* produce in more than one order, and the loop has taken its snapshot.
C15_Witness ==
  /\ Running
  /\ pc = "save"
  /\ Len(statusView) = NumUrls
  /\ statusView[1].Url < statusView[NumUrls].Url
  /\ Cardinality(Orders(DOMAIN statusState)) > 1

\* the view of the endpoint u in the snapshot s shows the default state
ShowsDefault(s, u) ==
  /\ ViewsFor(s, u) # {}
  /\ \A k \in ViewsFor(s, u) :
       /\ s[k].Healthy
       /\ s[k].LastHealth = Unix(ZeroTime)
       /\ s[k].LastUnhealthy = Unix(ZeroTime)

\* the first round has not completed
FirstRoundOpen ==
  Running /\ now = TicksPerSec /\ pc \in {"load", "spawn", "collect"}

\* no result of the endpoint config[i] has been applied yet
NotYetProbed(i) == probe[i].st # "done"

\* C16: unless a record was restored for it, a configured endpoint whose probe
\* result has not yet been applied shows its default state (healthy, both
\* timestamps unset) in every snapshot taken until the first round completes.
C16_UnprobedShowsDefault ==
  (FirstRoundOpen /\ file.kind # "views") =>
    \A i \in DOMAIN config :
      (pc = "collect" => NotYetProbed(i)) =>
        /\ ShowsDefault(StatusStatesToView, config[i])
        /\ jsonResp # <<"none">> => ShowsDefault(jsonResp[2], config[i])

\* C16 witness: nothing was restored, the first round has applied one result
\* and not the other, and a /status-json request took a snapshot in between.
C16_Witness ==
  /\ FirstRoundOpen
  /\ file.kind # "views"
  /\ pc = "collect"
  /\ received = 1
  /\ \E i \in DOMAIN config : NotYetProbed(i)
  /\ jsonResp = <<"views", StatusStatesToView>>

\* the handler of connection c has registered it and has not returned
Subscribed(c) == hpc[c] \in {"registered", "reading", "stalled"}

\* what holds of the subscriber set in every state
TracksLive ==
  Running =>
    \A c \in Conns :
      /\ c \in wsConnections => Subscribed(c)
      /\ hpc[c] = "closed" => c \notin wsConnections
      /\ c \in bcastFailed => c \notin wsConnections

\* what holds of every step that changes the subscriber set or sends a round
\* snapshot
TracksLiveStep ==
  (exit = "none" /\ exit' = "none") =>
    \A c \in Conns :
      /\ c \in wsConnections' \ wsConnections =>
           hpc[c] = "new" /\ hpc'[c] = "registered"
      /\ c \in wsConnections \ wsConnections' =>
           \/ hpc'[c] = "closed"
           \/ c \in bcastFailed' \ bcastFailed
           \/ hpc[c] = "registered" /\ hpc'[c] = "reading"
      /\ (c \notin wsConnections /\ hpc[c] # "new") =>
           c \notin wsConnections'
      /\ c \notin wsConnections => c \notin bcastSent' \ bcastSent

\* C17: the subscriber set tracks live connections: a connection enters it
\* only with its successful subscribe, leaves it when its handler's read
\* fails or a write to it fails, and once out is never put back and is sent
\* no round snapshot.
C17_SubscriberSetTracksLive == []TracksLive /\ [][TracksLiveStep]_vars

\* C17 witness: a broadcast ended in which the write to one connection failed
\* and removed it while its handler goes on reading, and another connection
\* was sent the snapshot.
C17_Witness ==
  /\ Running
  /\ pc = "sleep"
  /\ \E c \in bcastFailed : hpc[c] = "reading" /\ c \notin wsConnections
  /\ bcastSent # {}

\* C18: partial rounds are never published: the snapshot a round persists and
\* broadcasts is taken after the results of all its probes were applied, it
\* shows this round's result for every configured endpoint, and what the
\* round wrote to the file and what it wrote to the connections is that one
\* snapshot.
C18_NoPartialRoundPublished ==
  (Running /\ ViewTaken) =>
    /\ received = Len(config)
    /\ \A i \in DOMAIN probe : probe[i].st = "done"
    /\ statusView = StatusStatesToView
    /\ \A u \in Range(config) :
         statusState[u].LastHealthy = now \/ statusState[u].LastUnhealthy = now
    /\ savedViews \subseteq {statusView}
    /\ sentViews \subseteq {statusView}
    /\ savedViews # {} => file = FileOf(statusView)

\* C18 witness: a round over NumUrls endpoints wrote its snapshot to the file
\* and to a connection.
C18_Witness ==
  /\ Running
  /\ pc = "sleep"
  /\ Len(config) = NumUrls
  /\ savedViews = {statusView}
  /\ sentViews = {statusView}

\* C19: accesses to the state map exclude its mutation: no read of the map by
\* a probe, a /status-json handler or a subscribe handler can run while main
\* writes it, be it a round's result or the startup restore, and so the
\* process never ends on a concurrent access to the map.
C19_StateMapExclusive ==
  /\ Running => ~(WritesStateMap /\ ReadsStateMap)
  /\ exit # "mapread"

\* the subscriber set changes by a handler, not by the broadcast's own delete
HandlerMutates ==
  /\ wsConnections' # wsConnections
  /\ bcastFailed' = bcastFailed

\* C20: the subscriber set is guarded: no handler inserts or removes a
\* connection while the broadcast's range over the set is under way, nor
\* while another handler mutates it, and the process never ends on a
\* concurrent access to the set.
C20_SubscriberSetGuarded ==
  /\ [](exit # "mapwrite")
  /\ [][(exit = "none" /\ exit' = "none" /\ Ranging) => ~HandlerMutates]_vars

====
